---- MODULE Spec2Model ----
(***************************************************************************)
(* pem-params (src/main.rs): reads a PEM key file, converts the key to a   *)
(* JWK record (EcOutput / RsaOutput) and prints it as JSON.                *)
(*                                                                         *)
(* Big numbers are little-endian sequences of 16-bit limbs (OpenSSL keeps  *)
(* BN_ULONG limbs the same way; to_vec does not depend on the limb width). *)
(* Byte strings are sequences over 0..255, text strings produced by the    *)
(* base64 codec are sequences of one-character strings.                    *)
(***************************************************************************)
EXTENDS Integers, Sequences, FiniteSets, TLC

(***************************************************************************)
(* Bounds of the model.                                                    *)
(***************************************************************************)
\* RSA components are built from base-256 digits 0..MaxByte.
MaxByte == 2

(***************************************************************************)
(* Byte-string and bit helpers.                                            *)
(***************************************************************************)
\* Vec::extend_from_slice: append a slice to a byte vector.
extend_from_slice(vec, slice) == vec \o slice

\* Exclusive or / and of two 4-bit values, bit by bit.
RECURSIVE XorBits(_, _, _)
XorBits(a, b, n) ==
  IF n = 0 THEN 0
  ELSE ((a + b) % 2) + 2 * XorBits(a \div 2, b \div 2, n - 1)

RECURSIVE AndBits(_, _, _)
AndBits(a, b, n) ==
  IF n = 0 THEN 0
  ELSE ((a % 2) * (b % 2)) + 2 * AndBits(a \div 2, b \div 2, n - 1)

XorNibble == [a \in 0..15 |-> [b \in 0..15 |-> XorBits(a, b, 4)]]

AndNibble == [a \in 0..15 |-> [b \in 0..15 |-> AndBits(a, b, 4)]]

Xor16(a, b) ==
    XorNibble[a \div 4096][b \div 4096] * 4096
  + XorNibble[(a \div 256) % 16][(b \div 256) % 16] * 256
  + XorNibble[(a \div 16) % 16][(b \div 16) % 16] * 16
  + XorNibble[a % 16][b % 16]

And16(a, b) ==
    AndNibble[a \div 4096][b \div 4096] * 4096
  + AndNibble[(a \div 256) % 16][(b \div 256) % 16] * 256
  + AndNibble[(a \div 16) % 16][(b \div 16) % 16] * 16
  + AndNibble[a % 16][b % 16]

(***************************************************************************)
(* openssl::sha::sha256 (FIPS 180-4).  A 32-bit word is <<high, low>>,     *)
(* two 16-bit halves.                                                      *)
(***************************************************************************)
WXor(a, b) == << Xor16(a[1], b[1]), Xor16(a[2], b[2]) >>

WAnd(a, b) == << And16(a[1], b[1]), And16(a[2], b[2]) >>

WNot(a) == << 65535 - a[1], 65535 - a[2] >>

WAdd(a, b) ==
  LET lo == a[2] + b[2]
      hi == a[1] + b[1] + (lo \div 65536)
  IN  << hi % 65536, lo % 65536 >>

\* Rotate right by n, 0 <= n < 32.
WRotr(a, n) ==
  LET s  == IF n >= 16 THEN << a[2], a[1] >> ELSE a
      m  == n % 16
      p  == 2 ^ m
      q  == 2 ^ (16 - m)
  IN  << (s[1] \div p) + (s[2] % p) * q, (s[2] \div p) + (s[1] % p) * q >>

\* Shift right by n, 0 <= n < 16.
WShr(a, n) ==
  LET p == 2 ^ n
      q == 2 ^ (16 - n)
  IN  << a[1] \div p, (a[2] \div p) + (a[1] % p) * q >>

Ch(x, y, z) == WXor(WAnd(x, y), WAnd(WNot(x), z))

Maj(x, y, z) == WXor(WXor(WAnd(x, y), WAnd(x, z)), WAnd(y, z))

BigSigma0(x) == WXor(WXor(WRotr(x, 2), WRotr(x, 13)), WRotr(x, 22))

BigSigma1(x) == WXor(WXor(WRotr(x, 6), WRotr(x, 11)), WRotr(x, 25))

SmallSigma0(x) == WXor(WXor(WRotr(x, 7), WRotr(x, 18)), WShr(x, 3))

SmallSigma1(x) == WXor(WXor(WRotr(x, 17), WRotr(x, 19)), WShr(x, 10))

SHA256_K ==
  <<
    <<17034, 12184>>, <<28983, 17553>>, <<46528, 64463>>, <<59829, 56229>>,
    <<14678, 49755>>, <<23025, 4593>>, <<37439, 33444>>, <<43804, 24277>>,
    <<55303, 43672>>, <<4739, 23297>>, <<9265, 34238>>, <<21772, 32195>>,
    <<29374, 23924>>, <<32990, 45566>>, <<39900, 1703>>, <<49563, 61812>>,
    <<58523, 27073>>, <<61374, 18310>>, <<4033, 40390>>, <<9228, 41420>>,
    <<11753, 11375>>, <<19060, 33962>>, <<23728, 43484>>, <<30457, 35034>>,
    <<38974, 20818>>, <<43057, 50797>>, <<45059, 10184>>, <<48985, 32711>>,
    <<50912, 3059>>, <<54695, 37191>>, <<1738, 25425>>, <<5161, 10599>>,
    <<10167, 2693>>, <<11803, 8504>>, <<19756, 28156>>, <<21304, 3347>>,
    <<25866, 29524>>, <<30314, 2747>>, <<33218, 51502>>, <<37490, 11397>>,
    <<41663, 59553>>, <<43034, 26187>>, <<49739, 35696>>, <<51052, 20899>>,
    <<53650, 59417>>, <<54937, 1572>>, <<62478, 13701>>, <<4202, 41072>>,
    <<6564, 49430>>, <<7735, 27656>>, <<10056, 30540>>, <<13488, 48309>>,
    <<14620, 3251>>, <<20184, 43594>>, <<23452, 51791>>, <<26670, 28659>>,
    <<29839, 33518>>, <<30885, 25455>>, <<33992, 30740>>, <<36039, 520>>,
    <<37054, 65530>>, <<42064, 27883>>, <<48889, 41975>>, <<50801, 30962>> >>
SHA256_H0 ==
  <<
    <<27145, 58983>>, <<47975, 44677>>, <<15470, 62322>>, <<42319, 62778>>,
    <<20750, 21119>>, <<39685, 26764>>, <<8067, 55723>>, <<23520, 52505>> >>

\* The padded message: data, 0x80, zeros, and the bit length as 8 bytes
\* (the model's messages are shorter than 2^13 bytes).
Sha256Pad(data) ==
  LET len   == Len(data)
      zeros == (119 - (len % 64)) % 64
      bits  == len * 8
  IN  data \o << 128 >> \o [i \in 1..zeros |-> 0]
           \o << 0, 0, 0, 0, 0, 0, bits \div 256, bits % 256 >>

\* The 16 big-endian words of block number blk (from 0).
Sha256Block(msg, blk) ==
  [i \in 1..16 |->
     LET o == blk * 64 + (i - 1) * 4
     IN  << msg[o + 1] * 256 + msg[o + 2], msg[o + 3] * 256 + msg[o + 4] >>]

RECURSIVE Sha256Schedule(_)
Sha256Schedule(w) ==
  IF Len(w) = 64 THEN w
  ELSE LET t == Len(w) + 1
       IN  Sha256Schedule(Append(w,
             WAdd(WAdd(SmallSigma1(w[t - 2]), w[t - 7]),
                  WAdd(SmallSigma0(w[t - 15]), w[t - 16]))))

\* The 64 rounds; st = << round, working variables a..h >>.
RECURSIVE Sha256Rounds(_, _)
Sha256Rounds(st, w) ==
  IF st[1] > 64 THEN st[2]
  ELSE LET t  == st[1]
           s  == st[2]
           t1 == WAdd(WAdd(WAdd(s[8], BigSigma1(s[5])),
                           WAdd(Ch(s[5], s[6], s[7]), SHA256_K[t])), w[t])
           t2 == WAdd(BigSigma0(s[1]), Maj(s[1], s[2], s[3]))
       IN  Sha256Rounds(<< t + 1,
                           << WAdd(t1, t2), s[1], s[2], s[3],
                              WAdd(s[4], t1), s[5], s[6], s[7] >> >>, w)

Sha256Compress(h, block) ==
  LET s == Sha256Rounds(<< 1, h >>, Sha256Schedule(block))
  IN  [i \in 1..8 |-> WAdd(h[i], s[i])]

\* st = << next block, chaining value >>.
RECURSIVE Sha256Blocks(_, _)
Sha256Blocks(st, msg) ==
  IF st[1] * 64 >= Len(msg) THEN st[2]
  ELSE Sha256Blocks(<< st[1] + 1,
                       Sha256Compress(st[2], Sha256Block(msg, st[1])) >>, msg)

\* sha256(data): the 32-byte digest.
sha256(data) ==
  LET h == Sha256Blocks(<< 0, SHA256_H0 >>, Sha256Pad(data))
  IN  [i \in 1..32 |->
         LET w == h[(i - 1) \div 4 + 1]
             k == (i - 1) % 4
         IN  IF k = 0 THEN w[1] \div 256
             ELSE IF k = 1 THEN w[1] % 256
             ELSE IF k = 2 THEN w[2] \div 256
             ELSE w[2] % 256]

(***************************************************************************)
(* base64ct::Base64UrlUnpadded.                                            *)
(***************************************************************************)
Base64UrlAlphabet ==
  << "A", "B", "C", "D", "E", "F", "G", "H", "I", "J", "K", "L", "M",
     "N", "O", "P", "Q", "R", "S", "T", "U", "V", "W", "X", "Y", "Z",
     "a", "b", "c", "d", "e", "f", "g", "h", "i", "j", "k", "l", "m",
     "n", "o", "p", "q", "r", "s", "t", "u", "v", "w", "x", "y", "z",
     "0", "1", "2", "3", "4", "5", "6", "7", "8", "9", "-", "_" >>

\* Base64UrlUnpadded::encode_string: six bits per character, most
\* significant first, the last group zero-filled, no '=' padding.
encode_string(bytes) ==
  LET n == (Len(bytes) * 8 + 5) \div 6
  IN  [i \in 1..n |->
         LET off == (i - 1) * 6
             k   == off \div 8 + 1
             b1  == bytes[k]
             b2  == IF k + 1 <= Len(bytes) THEN bytes[k + 1] ELSE 0
         IN  Base64UrlAlphabet[(((b1 * 256 + b2) \div (2 ^ (10 - (off % 8)))) % 64) + 1]]

(***************************************************************************)
(* openssl::bn::BigNum.                                                    *)
(***************************************************************************)
\* BN_num_bits_word.
RECURSIVE BitLen(_)
BitLen(w) == IF w = 0 THEN 0 ELSE 1 + BitLen(w \div 2)

\* BigNumRef::num_bytes: (BN_num_bits + 7) / 8; zero has no bits.
num_bytes(bn) ==
  IF Len(bn) = 0 THEN 0
  ELSE ((Len(bn) - 1) * 16 + BitLen(bn[Len(bn)]) + 7) \div 8

\* Byte k (from the least significant, k >= 0) of a big number.
ByteOf(bn, k) ==
  IF k \div 2 + 1 > Len(bn) THEN 0
  ELSE IF k % 2 = 0 THEN bn[k \div 2 + 1] % 256
  ELSE bn[k \div 2 + 1] \div 256

\* BigNumRef::to_vec: BN_bn2bin into a vector of num_bytes bytes, big-endian.
to_vec(bn) ==
  LET size == num_bytes(bn)
  IN  [i \in 1..size |-> ByteOf(bn, size - i)]

\* BN_bn2binpad: big-endian, left-padded with zeros to len bytes.
bn2binpad(bn, len) == [i \in 1..len |-> ByteOf(bn, len - i)]

\* The big number holding a small integer v (BN_bin2bn of its DER INTEGER).
BN(v) ==
  IF v = 0 THEN << >>
  ELSE IF v < 65536 THEN << v >>
  ELSE << v % 65536, v \div 65536 >>

(***************************************************************************)
(* Option<T>.                                                              *)
(***************************************************************************)
None == [some |-> FALSE]

Some(v) == [some |-> TRUE, val |-> v]

unwrap_or(opt, default) == IF opt.some THEN opt.val ELSE default

(***************************************************************************)
(* Elliptic-curve groups and points the key files hold.                    *)
(***************************************************************************)
\* Affine coordinates of points on NIST P-256: the generator G, the point
\* with x = 0, 43*G (y has a leading zero byte), 379*G (x has one); and the
\* generator of secp256k1.
P256_G_x == <<49814, 55448, 14661, 62625, 13216, 11755, 32129, 30467, 16626, 25508, 59109, 63676, 16967, 57644, 53746, 27415>>

P256_G_y == <<20981, 14271, 16488, 52150, 24270, 27441, 13143, 11214, 40470, 31759, 60234, 36583, 32667, 65050, 17122, 20451>>

P256_X0_x == <<>>

P256_X0_y == <<37876, 5967, 34154, 10431, 34583, 7598, 10995, 21532, 27574, 33952, 48477, 9267, 33751, 3631, 23672, 26184>>

P256_43G_x == <<53901, 39810, 56338, 30020, 45839, 53257, 50374, 36683, 19273, 7567, 12422, 53314, 61700, 28447, 57936, 39018>>

P256_43G_y == <<32407, 7088, 3140, 9489, 40741, 39960, 50728, 55407, 31585, 32060, 42201, 58152, 3594, 42566, 52416, 60>>

P256_379G_x == <<49162, 43223, 35728, 61095, 24432, 34779, 30647, 45160, 23702, 56279, 16555, 55255, 53262, 19187, 17289, 85>>

P256_379G_y == <<16274, 23956, 54666, 27755, 22255, 11254, 19907, 54705, 56708, 26898, 9280, 43770, 10735, 55530, 34211, 47948>>

K256_G_x == <<6040, 5880, 33115, 23026, 10457, 11726, 64731, 667, 2823, 52871, 25237, 21920, 48044, 63964, 26238, 31166>>

K256_G_y == <<54456, 64272, 53391, 40007, 21529, 42629, 46152, 64791, 2216, 3601, 64508, 23972, 50277, 9891, 55927, 18490>>

\* EcGroup: the curve identifier (Nid) the group carries, if any, and the
\* byte length of a field element.  "custom17" is y^2 = x^3 + 2x + 2 over
\* GF(17), given by explicit parameters: it has no Nid.
EcGroups ==
  { [name |-> "prime256v1", nid |-> Some("X9_62_PRIME256V1"), field_len |-> 32],
    [name |-> "secp256k1",  nid |-> Some("SECP256K1"),        field_len |-> 32],
    [name |-> "custom17",   nid |-> None,                     field_len |-> 1] }

Group(name) == CHOOSE g \in EcGroups : g.name = name

\* EcGroupRef::curve_name.
curve_name(group) == group.nid

EcPoint(x, y) == [infinity |-> FALSE, x |-> x, y |-> y]

PointAtInfinity == [infinity |-> TRUE, x |-> << >>, y |-> << >>]

EcPoints ==
  [ prime256v1 |-> { EcPoint(P256_G_x, P256_G_y), EcPoint(P256_X0_x, P256_X0_y),
                     EcPoint(P256_43G_x, P256_43G_y),
                     EcPoint(P256_379G_x, P256_379G_y), PointAtInfinity },
    secp256k1  |-> { EcPoint(K256_G_x, K256_G_y) },
    custom17   |-> { EcPoint(BN(5), BN(1)), EcPoint(BN(6), BN(3)) } ]

Ok(v) == [ok |-> TRUE, val |-> v]

Err(context) == [ok |-> FALSE, context |-> context]

\* EcPointRef::affine_coordinates: fails for the point at infinity.
affine_coordinates(point) ==
  IF point.infinity THEN Err("extract coordinates")
  ELSE Ok([x |-> point.x, y |-> point.y])

\* EcPointRef::to_bytes(group, PointConversionForm::UNCOMPRESSED): the form
\* byte 0x04, then x and y, each padded to the field length.
to_bytes(point, group) ==
  IF point.infinity THEN << 0 >>
  ELSE << 4 >> \o bn2binpad(point.x, group.field_len)
              \o bn2binpad(point.y, group.field_len)

(***************************************************************************)
(* Text constants (String values as character sequences).                  *)
(***************************************************************************)
STR_EC == << "E", "C" >>

STR_RSA == << "R", "S", "A" >>

STR_ES256 == << "E", "S", "2", "5", "6" >>

STR_RS256 == << "R", "S", "2", "5", "6" >>

STR_P256 == << "P", "-", "2", "5", "6" >>

STR_Unknown == << "U", "n", "k", "n", "o", "w", "n" >>

(***************************************************************************)
(* The keys a PEM file can hold, as the parser hands them to main.         *)
(***************************************************************************)
\* Integers of at most two base-256 digits, each digit at most MaxByte.
TwoDigit == { a * 256 + b : a, b \in 0..MaxByte }

\* RSA keys are not validated when they are loaded: small moduli and a
\* private exponent of zero parse.
RsaModuli == { BN(v) : v \in TwoDigit \ { 0 } }

\* Public exponents of one, two and three bytes (65537 is the usual one).
RsaPublicExponents == { BN(v) : v \in { 1, 2, 513, 65537 } }

RsaPrivateExponents == { BN(v) : v \in 0..MaxByte }

EcGroupNames == { g.name : g \in EcGroups }

\* PKey<Public> handles.
PublicKeys ==
       UNION { { [alg |-> "EC", group |-> g, public_key |-> p] : p \in EcPoints[g] } :
               g \in EcGroupNames }
  \cup { [alg |-> "RSA", n |-> n, e |-> e] :
            n \in RsaModuli, e \in RsaPublicExponents }
  \cup { [alg |-> "ED25519"] }

\* PKey<Private> handles (an EC private key carries its scalar).
PrivateKeys ==
       { [alg |-> "EC", group |-> "prime256v1",
          public_key |-> EcPoint(P256_G_x, P256_G_y), private_key |-> BN(1)],
         [alg |-> "EC", group |-> "prime256v1",
          public_key |-> EcPoint(P256_43G_x, P256_43G_y), private_key |-> BN(43)] }
  \cup { [alg |-> "RSA", n |-> n, e |-> e, d |-> d] :
            n \in RsaModuli, e \in RsaPublicExponents, d \in RsaPrivateExponents }
  \cup { [alg |-> "ED25519"] }

\* What the path names: no readable file, bytes that are no PEM key, or a
\* PEM block of a public or of a private key.
NoFile == [kind |-> "missing"]

Malformed == [kind |-> "malformed"]

Files ==
       { NoFile, Malformed }
  \cup { [kind |-> "public", key |-> k] : k \in PublicKeys }
  \cup { [kind |-> "private", key |-> k] : k \in PrivateKeys }

\* The hash domains of the thumbprint: A is SHA-1, B is SHA-256.
HashDomains == { "A", "B" }

(***************************************************************************)
(* Library calls of main.                                                  *)
(***************************************************************************)
\* fs::read(path).
fs_read(file) == IF file.kind = "missing" THEN Err("read PEM file") ELSE Ok(file)

\* PKey::private_key_from_pem: parses a private-key PEM block.
private_key_from_pem(pem) ==
  IF pem.kind = "private" THEN Ok(pem.key) ELSE Err("parse PEM")

\* PKey::public_key_from_pem: parses a public-key PEM block.
public_key_from_pem(pem) ==
  IF pem.kind = "public" THEN Ok(pem.key) ELSE Err("parse PEM")

\* PKey::ec_key / PKey::rsa: Ok exactly for a key of that algorithm.
ec_key(key) == IF key.alg = "EC" THEN Ok(key) ELSE Err("ec_key")

rsa(key) == IF key.alg = "RSA" THEN Ok(key) ELSE Err("rsa")

(***************************************************************************)
(* impl TryFrom<&EcKeyRef<Public>> for EcOutput.                           *)
(***************************************************************************)
\* Mutant: the digest is cut to the 20 bytes of a SHA-1 digest.
EcKid_Digest20(key) ==
  encode_string(SubSeq(sha256(to_bytes(key.public_key, Group(key.group))), 1, 20))

\* The thumbprint of an EC key: base64 of SHA-256 of the uncompressed point.
EcKid(key) ==
  encode_string(sha256(to_bytes(key.public_key, Group(key.group))))

\* Mutant: every named curve is reported as P-256.
EcCrv_AlwaysP256(nid) == Some(STR_P256)

\* The match on the curve identifier.
EcCrv(nid) == IF nid = "X9_62_PRIME256V1" THEN Some(STR_P256) ELSE None

EcOutput_try_from(key) ==
  LET coords == affine_coordinates(key.public_key)
      name   == curve_name(Group(key.group))
  IN  IF ~coords.ok THEN Err("extract coordinates")
      ELSE IF ~name.some THEN Err("get curve name")
      ELSE Ok([type |-> "EcOutput",
               d    |-> None,
               x    |-> encode_string(to_vec(coords.val.x)),
               y    |-> encode_string(to_vec(coords.val.y)),
               kty  |-> STR_EC,
               alg  |-> STR_ES256,
               crv  |-> unwrap_or(EcCrv(name.val), STR_Unknown),
               kid  |-> EcKid(key)])

(***************************************************************************)
(* impl TryFrom<&RsaRef<Public>> / TryFrom<&RsaRef<Private>> for RsaOutput.*)
(***************************************************************************)
\* Mutant: each component is prefixed with its length.
RsaPublicBytes_LengthPrefixed(key) ==
  extend_from_slice(
    extend_from_slice(
      extend_from_slice(extend_from_slice(<< >>, << Len(to_vec(key.n)) >>),
                        to_vec(key.n)),
      << Len(to_vec(key.e)) >>),
    to_vec(key.e))

\* The bytes hashed for a public key: n, then e.
RsaPublicBytes(key) ==
  extend_from_slice(extend_from_slice(<< >>, to_vec(key.n)), to_vec(key.e))

\* Mutant: the private thumbprint leaves d out.
RsaPrivateBytes_NoD(key) ==
  extend_from_slice(extend_from_slice(<< >>, to_vec(key.n)), to_vec(key.e))

\* The bytes hashed for a private key: n, then e, then d.
RsaPrivateBytes(key) ==
  extend_from_slice(
    extend_from_slice(extend_from_slice(<< >>, to_vec(key.n)), to_vec(key.e)),
    to_vec(key.d))

RsaOutput_try_from_public(key) ==
  Ok([type |-> "RsaOutput",
      d    |-> None,
      n    |-> encode_string(to_vec(key.n)),
      e    |-> encode_string(to_vec(key.e)),
      kty  |-> STR_RSA,
      alg  |-> STR_RS256,
      kid  |-> encode_string(sha256(RsaPublicBytes(key)))])

\* Mutant: the private conversion leaves d out.
RsaOutput_try_from_private_NoD(key) ==
  Ok([type |-> "RsaOutput",
      d    |-> None,
      n    |-> encode_string(to_vec(key.n)),
      e    |-> encode_string(to_vec(key.e)),
      kty  |-> STR_RSA,
      alg  |-> STR_RS256,
      kid  |-> encode_string(sha256(RsaPrivateBytes(key)))])

RsaOutput_try_from_private(key) ==
  Ok([type |-> "RsaOutput",
      d    |-> Some(encode_string(to_vec(key.d))),
      n    |-> encode_string(to_vec(key.n)),
      e    |-> encode_string(to_vec(key.e)),
      kty  |-> STR_RSA,
      alg  |-> STR_RS256,
      kid  |-> encode_string(sha256(RsaPrivateBytes(key)))])

(***************************************************************************)
(* serde: #[derive(Serialize)] and serde_json::to_string_pretty.           *)
(***************************************************************************)
\* The fields of each struct, in declaration order.
EcOutputFields == << "d", "x", "y", "kid", "crv", "kty", "alg" >>

\* Mutant: kid declared last.
RsaOutputFields_KidLast == << "d", "n", "e", "kty", "alg", "kid" >>

RsaOutputFields == << "d", "n", "e", "kid", "kty", "alg" >>

\* The members of the JSON object: every field in declaration order, d
\* skipped when it is None (skip_serializing_if = "Option::is_none").
to_string_pretty(output) ==
  LET fields == IF output.type = "EcOutput" THEN EcOutputFields
                ELSE RsaOutputFields
      kept   == SelectSeq(fields, LAMBDA f : ~(f = "d" /\ ~output.d.some))
  IN  [i \in 1..Len(kept) |->
         [name  |-> kept[i],
          value |-> IF kept[i] = "d" THEN output.d.val ELSE output[kept[i]]]]

(***************************************************************************)
(* fn main.                                                                *)
(***************************************************************************)
VARIABLES
  cli,          \* Cli: key_type (the subcommand) and the file its path names
  hash_domain,  \* the hash domain the deployment asks for; Cli has no such field
  pc,           \* the statement main is at
  pem,          \* Option: the bytes read
  key,          \* Option: the parsed key
  output,       \* Option: the EcOutput / RsaOutput value
  json,         \* Option: the serialized text
  stdout,       \* what was printed, one element per println!
  termination,  \* "running", "ok" (main returned Ok), "report" (Err), "panic"
  exit_code,    \* Option: the process's exit status
  context       \* Option: the context of the report, or the panic message

vars ==
  << cli, hash_domain, pc, pem, key, output, json, stdout, termination,
     exit_code, context >>

KeyTypes == { "Private", "Public" }

Init ==
  /\ cli \in [key_type : KeyTypes, file : Files]
  /\ hash_domain \in HashDomains
  /\ pc = "read"
  /\ pem = None
  /\ key = None
  /\ output = None
  /\ json = None
  /\ stdout = << >>
  /\ termination = "running"
  /\ exit_code = None
  /\ context = None

\* Mutant: the error is dropped and main returns Ok(()).
ReturnErr_Swallowed(ctx) ==
  /\ pc' = "exited"
  /\ termination' = "report"
  /\ exit_code' = Some(0)
  /\ context' = Some(ctx)

\* `?` on an Err: main returns the report; the runtime prints it to standard
\* error and exits with status 1.
ReturnErr(ctx) ==
  /\ pc' = "exited"
  /\ termination' = "report"
  /\ exit_code' = Some(1)
  /\ context' = Some(ctx)

\* unimplemented!(): the thread panics; the process exits with status 101.
Unimplemented ==
  /\ pc' = "exited"
  /\ termination' = "panic"
  /\ exit_code' = Some(101)
  /\ context' = Some("not implemented")

\* let pem = fs::read(key).into_report(.., "read PEM file")?;
ReadPem ==
  /\ pc = "read"
  /\ LET r == fs_read(cli.file)
     IN  IF r.ok
         THEN /\ pem' = Some(r.val)
              /\ pc' = "parse"
              /\ UNCHANGED << termination, exit_code, context >>
         ELSE /\ ReturnErr(r.context)
              /\ UNCHANGED pem
  /\ UNCHANGED << cli, hash_domain, key, output, json, stdout >>

\* let key = PKey::{private,public}_key_from_pem(&pem).into_report(.., "parse PEM")?;
ParsePem ==
  /\ pc = "parse"
  /\ LET r == IF cli.key_type = "Private" THEN private_key_from_pem(pem.val)
              ELSE public_key_from_pem(pem.val)
     IN  IF r.ok
         THEN /\ key' = Some(r.val)
              /\ pc' = "match_key"
              /\ UNCHANGED << termination, exit_code, context >>
         ELSE /\ ReturnErr(r.context)
              /\ UNCHANGED key
  /\ UNCHANGED << cli, hash_domain, pem, output, json, stdout >>

\* The conversion main runs on the key: Ok(output), Err(report), or the
\* marker of an unimplemented!() arm.
Convert(key_type, k) ==
  IF key_type = "Private"
  THEN IF ec_key(k).ok THEN [ok |-> FALSE, context |-> "unimplemented"]
       ELSE IF rsa(k).ok THEN RsaOutput_try_from_private(rsa(k).val)
       ELSE [ok |-> FALSE, context |-> "unimplemented"]
  ELSE IF ec_key(k).ok THEN EcOutput_try_from(ec_key(k).val)
       ELSE IF rsa(k).ok THEN RsaOutput_try_from_public(rsa(k).val)
       ELSE [ok |-> FALSE, context |-> "unimplemented"]

\* if let Ok(ec_key) = key.ec_key() { .. } else if let Ok(rsa_key) = key.rsa()
\* { let output = ..::try_from(..)?; } else { unimplemented!() }
MatchKey ==
  /\ pc = "match_key"
  /\ LET r == Convert(cli.key_type, key.val)
     IN  IF r.ok
         THEN /\ output' = Some(r.val)
              /\ pc' = "serialize"
              /\ UNCHANGED << termination, exit_code, context >>
         ELSE IF r.context = "unimplemented"
         THEN /\ Unimplemented
              /\ UNCHANGED output
         ELSE /\ ReturnErr(r.context)
              /\ UNCHANGED output
  /\ UNCHANGED << cli, hash_domain, pem, key, json, stdout >>

\* let json = serde_json::to_string_pretty(&output).into_report(..)?;
\* (serializing a struct of strings does not fail).
Serialize ==
  /\ pc = "serialize"
  /\ json' = Some(to_string_pretty(output.val))
  /\ pc' = "println"
  /\ UNCHANGED << cli, hash_domain, pem, key, output, stdout, termination,
                  exit_code, context >>

\* println!("{json}");
Println ==
  /\ pc = "println"
  /\ stdout' = Append(stdout, json.val)
  /\ pc' = "return"
  /\ UNCHANGED << cli, hash_domain, pem, key, output, json, termination,
                  exit_code, context >>

\* Ok(())
ReturnOk ==
  /\ pc = "return"
  /\ pc' = "exited"
  /\ termination' = "ok"
  /\ exit_code' = Some(0)
  /\ UNCHANGED << cli, hash_domain, pem, key, output, json, stdout, context >>

Next ==
  \/ ReadPem
  \/ ParsePem
  \/ MatchKey
  \/ Serialize
  \/ Println
  \/ ReturnOk

Spec == Init /\ [][Next]_vars

(***************************************************************************)
(* Vocabulary of the properties.                                           *)
(***************************************************************************)
Exited == pc = "exited"

Succeeded == Exited /\ termination = "ok"

\* The names of a JSON object's members, in the order they were written.
MemberNames(obj) == [i \in 1..Len(obj) |-> obj[i].name]

HasMember(obj, name) == \E i \in 1..Len(obj) : obj[i].name = name

Member(obj, name) == obj[CHOOSE i \in 1..Len(obj) : obj[i].name = name].value

\* The key the file holds is an RSA private key, an EC public key, ...
InputIs(kind, alg) ==
  /\ cli.file.kind = kind
  /\ cli.file.key.alg = alg

\* A record with every member of its variant.
CompleteRecord(obj) ==
  \/ \A f \in { "x", "y", "kid", "crv", "kty", "alg" } : HasMember(obj, f)
  \/ \A f \in { "n", "e", "kid", "kty", "alg" } : HasMember(obj, f)

(***************************************************************************)
(* C1.  A printed record has the member d if and only if the input key was *)
(* an RSA private key converted under the Private subcommand; a record of  *)
(* an EC key or of an RSA public key has no d.                             *)
(***************************************************************************)
C1_DIffRsaPrivate ==
  \A i \in 1..Len(stdout) :
    HasMember(stdout[i], "d")
      <=> (cli.key_type = "Private" /\ InputIs("private", "RSA"))

\* An RSA private key was converted and its record, with d, was printed.
C1_Witness ==
  /\ Succeeded
  /\ InputIs("private", "RSA")
  /\ HasMember(stdout[1], "d")

(***************************************************************************)
(* C2.  Every run ends in one of two ways: one complete record printed and *)
(* exit status zero, or nothing printed and a nonzero exit status.  Nothing*)
(* is printed before the last fallible stage has passed, and a malformed   *)
(* PEM fails at the parse stage, before any conversion.                    *)
(***************************************************************************)
C2_OneOutcome ==
  /\ pc \notin { "return", "exited" } => stdout = << >>
  /\ Exited =>
       \/ /\ exit_code = Some(0)
          /\ Len(stdout) = 1
          /\ CompleteRecord(stdout[1])
       \/ /\ exit_code.some
          /\ exit_code.val # 0
          /\ stdout = << >>
  /\ (Exited /\ termination # "ok") => exit_code.val # 0
  /\ (Exited /\ cli.file = Malformed) =>
       /\ context = Some("parse PEM")
       /\ output = None
       /\ stdout = << >>

\* A run that failed after parsing, at the extraction of the coordinates.
C2_Witness ==
  /\ Exited
  /\ context = Some("extract coordinates")
  /\ exit_code = Some(1)
  /\ stdout = << >>

(***************************************************************************)
(* C3.  An EC private key, or a key that is neither EC nor RSA, makes the  *)
(* run fail with an error returned through main's result (the              *)
(* UnsupportedKeyType report), under either subcommand, printing nothing.  *)
(***************************************************************************)
UnsupportedKey(key_type, k) ==
  \/ key_type = "Private" /\ k.alg = "EC"
  \/ k.alg \notin { "EC", "RSA" }

C3_UnsupportedIsReported ==
  (Exited /\ key.some /\ UnsupportedKey(cli.key_type, key.val)) =>
     /\ termination = "report"
     /\ stdout = << >>

(***************************************************************************)
(* Canonical bytes and base64url decoding, as the specification defines    *)
(* them.                                                                   *)
(***************************************************************************)
RECURSIVE StripLeadingZeros(_)
StripLeadingZeros(bytes) ==
  IF bytes = << >> THEN << >>
  ELSE IF bytes[1] # 0 THEN bytes
  ELSE StripLeadingZeros(Tail(bytes))

\* The shortest big-endian byte sequence of a non-negative integer, with
\* no leading zero byte; the single byte 0 for the value zero.
CanonicalBytes(bn) ==
  IF Len(bn) = 0 THEN << 0 >>
  ELSE StripLeadingZeros(bn2binpad(bn, 2 * Len(bn)))

CharValue(c) == (CHOOSE i \in 1..64 : Base64UrlAlphabet[i] = c) - 1

\* The bytes an unpadded base64url text decodes to.
Base64UrlDecode(text) ==
  LET n == (Len(text) * 6) \div 8
  IN  [j \in 1..n |->
         LET off == (j - 1) * 8
             k   == (off \div 6) + 1
         IN  ((CharValue(text[k]) * 64 + CharValue(text[k + 1]))
                 \div (2 ^ (4 - (off % 6)))) % 256]

\* The kid of the record a run of main on key k would print.
KidOf(key_type, k) == Convert(key_type, k).val.kid

KeysOf(key_type) == IF key_type = "Private" THEN PrivateKeys ELSE PublicKeys

PublicPortion(k) ==
  IF k.alg = "EC" THEN << k.group, k.public_key >> ELSE << k.n, k.e >>

\* The concatenation of the component byte strings of an RSA key.
RsaConcatenation(key_type, k) ==
  IF key_type = "Private" THEN to_vec(k.n) \o to_vec(k.e) \o to_vec(k.d)
  ELSE to_vec(k.n) \o to_vec(k.e)

PrintedKid == Member(stdout[1], "kid")

(***************************************************************************)
(* C4.  The kid of an RSA key is base64url(SHA-256(B)), B the canonical    *)
(* bytes of n then e (public key) or of n, e, d (private key) with nothing *)
(* between them; so the kid of a private key differs from the kid of the   *)
(* public key with the same n and e.                                       *)
(***************************************************************************)
C4_RsaKidOverCanonicalBytes ==
  (Succeeded /\ key.val.alg = "RSA") =>
    LET k == key.val
        B == IF cli.key_type = "Private"
             THEN CanonicalBytes(k.n) \o CanonicalBytes(k.e) \o CanonicalBytes(k.d)
             ELSE CanonicalBytes(k.n) \o CanonicalBytes(k.e)
    IN  /\ cli.key_type = "Private" =>
             PrintedKid # KidOf("Public", [alg |-> "RSA", n |-> k.n, e |-> k.e])
        /\ PrintedKid = encode_string(sha256(B))

(***************************************************************************)
(* C5.  The kid is always present and depends on the public portion of the *)
(* key only: every run on a key with the same public portion (same n and e,*)
(* or same curve point) prints the same kid, whatever d is and whether the *)
(* key is given as public or private.                                      *)
(***************************************************************************)
C5_KidFromPublicPortionOnly ==
  Succeeded =>
    /\ HasMember(stdout[1], "kid")
    /\ \A kt \in KeyTypes : \A k2 \in KeysOf(kt) :
         ( /\ k2.alg = key.val.alg
           /\ PublicPortion(k2) = PublicPortion(key.val)
           /\ Convert(kt, k2).ok )
           => KidOf(kt, k2) = PrintedKid

(***************************************************************************)
(* C5, amended.  The kid is always present.  For a key given as public it  *)
(* depends on the public portion only.  For an RSA private key it is       *)
(* computed from n, e and d: it equals the kid of the public key (n, e)    *)
(* only when d is zero, and two private keys with the same n and e have the*)
(* same kid only when they have the same d.                                *)
(***************************************************************************)
C5_KidDependsOnD ==
  Succeeded =>
    /\ HasMember(stdout[1], "kid")
    /\ PrintedKid # << >>
    /\ cli.key_type = "Public" =>
         \A k2 \in PublicKeys :
           (k2.alg = key.val.alg /\ PublicPortion(k2) = PublicPortion(key.val)
              /\ Convert("Public", k2).ok)
             => KidOf("Public", k2) = PrintedKid
    /\ cli.key_type = "Private" =>
         LET k == key.val
         IN  /\ (PrintedKid = KidOf("Public", [alg |-> "RSA", n |-> k.n, e |-> k.e]))
                  <=> (k.d = BN(0))
             /\ \A k2 \in PrivateKeys :
                  (k2.alg = "RSA" /\ PublicPortion(k2) = PublicPortion(k))
                    => ((KidOf("Private", k2) = PrintedKid) <=> (k2.d = k.d))

\* An RSA private key with a nonzero d was converted.
C5_Witness ==
  /\ Succeeded
  /\ InputIs("private", "RSA")
  /\ key.val.d # BN(0)
  /\ PrintedKid = output.val.kid

(***************************************************************************)
(* C6.  The printed record has exactly the members of its variant, in the  *)
(* order EC: x, y, kty, alg, crv, kid; RSA public: n, e, kty, alg, kid;    *)
(* RSA private: the RSA public members and d; with the fixed values of kty *)
(* and alg.                                                                *)
(***************************************************************************)
FixedValues(obj) ==
  IF key.val.alg = "EC"
  THEN Member(obj, "kty") = STR_EC /\ Member(obj, "alg") = STR_ES256
  ELSE Member(obj, "kty") = STR_RSA /\ Member(obj, "alg") = STR_RS256

C6_SpecifiedOrder ==
  Succeeded =>
    LET names == MemberNames(stdout[1])
    IN  /\ IF key.val.alg = "EC"
           THEN names = << "x", "y", "kty", "alg", "crv", "kid" >>
           ELSE IF cli.key_type = "Public"
           THEN names = << "n", "e", "kty", "alg", "kid" >>
           ELSE /\ SelectSeq(names, LAMBDA f : f # "d")
                     = << "n", "e", "kty", "alg", "kid" >>
                /\ Len(names) = 6
        /\ FixedValues(stdout[1])

(***************************************************************************)
(* C6, amended.  The printed record has exactly the members of its variant,*)
(* in the order the struct declares them: EC: x, y, kid, crv, kty, alg;    *)
(* RSA public: n, e, kid, kty, alg; RSA private: d, n, e, kid, kty, alg;   *)
(* with the fixed values of kty and alg.                                   *)
(***************************************************************************)
C6_DeclarationOrder ==
  Succeeded =>
    LET names == MemberNames(stdout[1])
    IN  /\ IF key.val.alg = "EC"
           THEN names = << "x", "y", "kid", "crv", "kty", "alg" >>
           ELSE IF cli.key_type = "Public"
           THEN names = << "n", "e", "kid", "kty", "alg" >>
           ELSE names = << "d", "n", "e", "kid", "kty", "alg" >>
        /\ FixedValues(stdout[1])

\* An RSA private key's record was printed.
C6_Witness ==
  /\ Succeeded
  /\ InputIs("private", "RSA")
  /\ Len(stdout[1]) = 6

(***************************************************************************)
(* C7.  For every EC public key (with a finite point) the curve name is    *)
(* resolved without failure: P-256 gives crv "P-256", any other curve gives*)
(* crv "Unknown", with a complete record printed and exit status zero.     *)
(***************************************************************************)
EcPublicRun ==
  /\ Exited
  /\ cli.key_type = "Public"
  /\ InputIs("public", "EC")
  /\ ~cli.file.key.public_key.infinity

ExpectedCrv == IF cli.file.key.group = "prime256v1" THEN STR_P256 ELSE STR_Unknown

C7_CurveNameNeverFails ==
  EcPublicRun =>
    /\ exit_code = Some(0)
    /\ Len(stdout) = 1
    /\ CompleteRecord(stdout[1])
    /\ Member(stdout[1], "crv") = ExpectedCrv

(***************************************************************************)
(* C7, amended.  For an EC public key with a finite point whose group      *)
(* carries a curve identifier, P-256 gives crv "P-256" and any other       *)
(* identifier gives crv "Unknown", with a complete record printed and exit *)
(* status zero.  When the group carries no curve identifier (explicit      *)
(* parameters), the run fails with the report "get curve name", prints     *)
(* nothing and exits with a nonzero status.                                *)
(***************************************************************************)
C7_CurveNameResolution ==
  EcPublicRun =>
    IF curve_name(Group(cli.file.key.group)).some
    THEN /\ exit_code = Some(0)
         /\ Len(stdout) = 1
         /\ CompleteRecord(stdout[1])
         /\ Member(stdout[1], "crv") = ExpectedCrv
    ELSE /\ termination = "report"
         /\ context = Some("get curve name")
         /\ exit_code = Some(1)
         /\ stdout = << >>

\* A key on a named curve other than P-256 was printed with crv "Unknown".
C7_Witness ==
  /\ EcPublicRun
  /\ cli.file.key.group = "secp256k1"
  /\ Succeeded
  /\ Member(stdout[1], "crv") = STR_Unknown

(***************************************************************************)
(* C8.  The hash domain of the EC thumbprint is selected by configuration: *)
(* with domain A the kid decodes to the 20 bytes of a SHA-1 digest, with   *)
(* domain B to the 32 bytes of a SHA-256 digest.                           *)
(***************************************************************************)
EcSucceeded == Succeeded /\ key.val.alg = "EC"

C8_SelectableDomains ==
  EcSucceeded =>
    Len(Base64UrlDecode(PrintedKid)) = (IF hash_domain = "A" THEN 20 ELSE 32)

(***************************************************************************)
(* C8, amended.  The EC thumbprint has one hash domain: whatever domain is *)
(* asked for, the kid is base64url of the SHA-256 digest of the            *)
(* uncompressed point encoding and decodes to exactly 32 bytes.            *)
(***************************************************************************)
C8_AlwaysSha256 ==
  EcSucceeded =>
    /\ Len(Base64UrlDecode(PrintedKid)) = 32
    /\ Base64UrlDecode(PrintedKid)
         = sha256(to_bytes(key.val.public_key, Group(key.val.group)))

\* An EC key was converted with domain A asked for.
C8_Witness ==
  /\ EcSucceeded
  /\ hash_domain = "A"
  /\ Len(PrintedKid) = 43

(***************************************************************************)
(* C9.  Every key component (x, y, n, e, d) is encoded from its canonical  *)
(* bytes: the shortest big-endian representation without a leading zero    *)
(* byte, zero being the single byte 0, never padded to the field width.    *)
(***************************************************************************)
ComponentNames ==
  IF key.val.alg = "EC" THEN { "x", "y" }
  ELSE IF cli.key_type = "Private" THEN { "n", "e", "d" }
  ELSE { "n", "e" }

Component(name) ==
  IF key.val.alg = "EC" THEN key.val.public_key[name] ELSE key.val[name]

C9_ComponentsCanonical ==
  Succeeded =>
    \A c \in ComponentNames :
      Member(stdout[1], c) = encode_string(CanonicalBytes(Component(c)))

(***************************************************************************)
(* C10.  The RSA kid is a function of the concatenated component bytes     *)
(* only: any RSA key, public or private, whose component byte strings      *)
(* concatenate to the same sequence gets the same kid.  Such distinct keys *)
(* exist, so the kid is not injective in the components.                   *)
(***************************************************************************)
C10_KidOfConcatenation ==
  (Succeeded /\ key.val.alg = "RSA") =>
    \A kt \in KeyTypes : \A k2 \in KeysOf(kt) :
      ( /\ k2.alg = "RSA"
        /\ RsaConcatenation(kt, k2) = RsaConcatenation(cli.key_type, key.val) )
        => KidOf(kt, k2) = PrintedKid

\* A public key was converted whose bytes, all components nonzero, are also
\* the bytes of another public key and of a private key.
C10_Witness ==
  /\ Succeeded
  /\ InputIs("public", "RSA")
  /\ key.val.n # BN(0)
  /\ key.val.e # BN(0)
  /\ \E k2 \in PublicKeys :
       /\ k2.alg = "RSA"
       /\ k2 # key.val
       /\ k2.n # BN(0)
       /\ k2.e # BN(0)
       /\ RsaConcatenation("Public", k2) = RsaConcatenation("Public", key.val)
       /\ KidOf("Public", k2) = PrintedKid
  /\ \E k3 \in PrivateKeys :
       /\ k3.alg = "RSA"
       /\ BN(0) \notin { k3.n, k3.e, k3.d }
       /\ RsaConcatenation("Private", k3) = RsaConcatenation("Public", key.val)
       /\ KidOf("Private", k3) = PrintedKid

====
